---- MODULE Spec2Model ----
(***************************************************************************)
(* Five-stage pipeline simulator of pympp (cpu.py, pipeline.py,            *)
(* mips/isa.py, mips/set.py, util/type.py, base.py).                       *)
(*                                                                         *)
(* Representation of numbers.  A Word (util/type.py) is a 32-bit value     *)
(* kept as the pair <<hi, lo>> of its two 16-bit halves, so that all       *)
(* arithmetic is exact modulo 2^32.  A machine-code word is kept the same  *)
(* way.  A Python number that may be either a plain int or a Word (pc,     *)
(* npc) is the record [w, i, hl]: w says it is a Word, hl its halves, and  *)
(* i the value of a plain int.                                             *)
(***************************************************************************)
EXTENDS Integers, Sequences, FiniteSets, TLC

VARIABLES imem, pc, regs, dmem, cycle, slots, shadows, pkts, created,
          behaviors, history, exc, rcpu

vars == <<imem, pc, regs, dmem, cycle, slots, shadows, pkts, created,
          behaviors, history, exc, rcpu>>

----------------------------------------------------------------------------
(* Bounds of the model *)
MaxProg == 3
MaxCycle == 12
MaxRun == 3

----------------------------------------------------------------------------
(* util/type.py : Word *)
TwoTo16 == 65536

W(hi, lo) == <<hi, lo>>

\* Word(val) for a Python int val : int(val) & MASK
WordOfInt(i) == <<(i \div TwoTo16) % TwoTo16, i % TwoTo16>>

\* an addition that does not mask the sum to 32 bits
AddW_nomask(a, b) ==
    <<a[1] + b[1] + ((a[2] + b[2]) \div TwoTo16), (a[2] + b[2]) % TwoTo16>>

AddW(a, b) ==
    LET lo == a[2] + b[2]
        hi == a[1] + b[1] + (lo \div TwoTo16)
    IN  <<hi % TwoTo16, lo % TwoTo16>>

SubW(a, b) ==
    LET lo == a[2] - b[2]
        hi == a[1] - b[1] + (lo \div TwoTo16)
    IN  <<hi % TwoTo16, lo % TwoTo16>>

RECURSIVE BitOr(_, _, _)
BitOr(a, b, n) ==
    IF n = 0 THEN 0
    ELSE (IF (a % 2 = 1) \/ (b % 2 = 1) THEN 1 ELSE 0)
         + 2 * BitOr(a \div 2, b \div 2, n - 1)

\* Word.__or__ with a 16-bit int operand
OrW(a, imm) == <<a[1], BitOr(a[2], imm, 16)>>

\* hex32(val) : the 8-digit text of int(val) & MASK, kept as the masked word
ZeroW == <<0, 0>>

----------------------------------------------------------------------------
(* Python numbers that are either int or Word *)
PyInt(i) == [w |-> FALSE, i |-> i, hl |-> ZeroW]
PyWord(hl) == [w |-> TRUE, i |-> 0, hl |-> hl]

\* int(x) & MASK
ToWord(x) == IF x.w THEN x.hl ELSE WordOfInt(x.i)

\* x + k for a Python int k : int + int stays int, Word.__add__ wraps
NumAdd(x, k) == IF x.w THEN PyWord(AddW(x.hl, WordOfInt(k))) ELSE PyInt(x.i + k)

\* a != b : plain comparison of two ints, Word.__eq__ (modulo 2^32) otherwise
NumNe(a, b) == IF a.w \/ b.w THEN ToWord(a) # ToWord(b) ELSE a.i # b.i

hex32(x) == ToWord(x)

----------------------------------------------------------------------------
(* base.py : Stage and PIPELINE *)
BEGIN == 0
IF_ == 1
ID == 2
EX == 3
MEM == 4
WB == 5
END == 6

Stage == BEGIN..END

StageName(s) == <<"IF", "ID", "EX", "MEM", "WB", "END">>[s]

\* PIPELINE[s]; END has no entry (KeyError)
PIPELINE(s) == s + 1

----------------------------------------------------------------------------
(* mips/isa.py : bit fields of a raw machine word <<hi, lo>> *)
opcode(raw) == raw[1] \div 1024
rs(raw) == (raw[1] \div 32) % 32
rt(raw) == raw[1] % 32
rd(raw) == raw[2] \div 2048
funct(raw) == raw[2] % 64
imm16(raw) == raw[2]
imm16_signed(raw) == IF raw[2] >= 32768 THEN raw[2] - 65536 ELSE raw[2]
imm26(raw) == (raw[1] % 1024) * TwoTo16 + raw[2]

\* INSTRUCTION_REGISTRY as filled by mips/set.py
Registered(op, fn) ==
    IF op = 0 THEN
        CASE fn = 32 -> "add"
          [] fn = 34 -> "sub"
          [] fn = 8  -> "jr"
          [] fn = 0  -> "nop"
          [] OTHER   -> "none"
    ELSE
        CASE op = 15 -> "lui"
          [] op = 13 -> "ori"
          [] op = 35 -> "lw"
          [] op = 43 -> "sw"
          [] op = 4  -> "beq"
          [] op = 3  -> "jal"
          [] OTHER   -> "none"

\* a decode without the fallback to the entry of (0, 0)
decode_nofallback(raw) == Registered(opcode(raw), funct(raw))

\* decode(machine_code, pc) : the class of the instruction object
decode(raw) ==
    LET k == Registered(opcode(raw), funct(raw))
    IN  IF k = "none" THEN Registered(0, 0) ELSE k

\* timing metadata given to @instr
tuse_rs(kind) ==
    CASE kind \in {"add", "sub", "ori", "lw", "sw"} -> EX
      [] kind \in {"beq", "jr"} -> ID
      [] OTHER -> BEGIN

tuse_rt(kind) ==
    CASE kind \in {"add", "sub"} -> EX
      [] kind = "sw" -> MEM
      [] kind = "beq" -> ID
      [] OTHER -> BEGIN

tnew(kind) ==
    CASE kind \in {"add", "sub", "lui"} -> MEM
      [] kind \in {"ori", "jal"} -> EX
      [] kind = "lw" -> WB
      [] OTHER -> END

\* Instruction.remaining(stage)
remaining(kind, stage) ==
    LET r == tnew(kind) - stage IN IF r > 0 THEN r ELSE 0

\* get_wreg(); -1 stands for None
get_wreg(kind, raw) ==
    CASE kind \in {"add", "sub"} -> rd(raw)
      [] kind \in {"lui", "ori", "lw"} -> rt(raw)
      [] kind = "jal" -> 31
      [] OTHER -> -1

----------------------------------------------------------------------------
(* The machine: the fields of one CPU object.  Packet objects live in pkts,   *)
(* keyed by identity (order of creation); slots and shadows hold identities, *)
(* 0 for None, so that two slots may refer to the same packet object.        *)

None == 0

NoMap == <<>>

Get(f, k, d) == IF k \in DOMAIN f THEN f[k] ELSE d

\* Packet(pool, pc, instr) with __post_init__
NewPacket(fpc, raw) ==
    [pc |-> fpc, raw |-> raw, kind |-> decode(raw), npc |-> NumAdd(fpc, 4),
     stage |-> IF_, alu |-> NoMap, mem |-> NoMap, optional |-> NoMap]

\* Packet.advance(); PIPELINE has no key END
CanAdvance(p) == p.stage # END
advance(p) == [p EXCEPT !.stage = PIPELINE(p.stage)]

Raise(m, e) == [m EXCEPT !.exc = e]

\* CPU.log_behavior
log_behavior(m, b) == [m EXCEPT !.behaviors = Append(@, b)]

RegWriteBehavior(c, p, r, v) == [type |-> "RegWrite", cycle |-> c, pc |-> p, reg |-> r, val |-> v]
MemWriteBehavior(c, p, a, v) == [type |-> "MemWrite", cycle |-> c, pc |-> p, addr |-> a, val |-> v]
ForwardBehavior(c, p, r, v, f, t) ==
    [type |-> "Forward", cycle |-> c, pc |-> p, reg |-> r, val |-> v,
     from_stage |-> f, to_stage |-> t]
StallBehavior(c, p, s, why) == [type |-> "Stall", cycle |-> c, pc |-> p, stage |-> s, reason |-> why]
BranchBehavior(c, p, t, tk) == [type |-> "Branch", cycle |-> c, pc |-> p, target_pc |-> t, taken |-> tk]

\* the text "Hazard on $reg: Tuse(a) < Tnew(b)"
HazardReason(reg, a, b) == [reg |-> reg, tuse |-> a, tnew |-> b]
NoReason == HazardReason(0, 0, 0)

\* a write that logs the RegWrite and leaves the register as it was
RegisterFile_write_logonly(m, reg_id, value, ppc) ==
    IF reg_id # 0
    THEN log_behavior(m, RegWriteBehavior(m.cycle, ppc, reg_id, value))
    ELSE m

\* RegisterFile.write
RegisterFile_write(m, reg_id, value, ppc) ==
    IF reg_id # 0
    THEN log_behavior([m EXCEPT !.regs[reg_id] = value],
                      RegWriteBehavior(m.cycle, ppc, reg_id, value))
    ELSE m

\* Memory.read / Memory.write
Memory_read(m, addr) == Get(m.dmem, addr, ZeroW)

Memory_write(m, addr, value, ppc) ==
    log_behavior([m EXCEPT !.dmem = (addr :> value) @@ @],
                 MemWriteBehavior(m.cycle, ppc, addr, value))

----------------------------------------------------------------------------
(* pipeline.py : Pool *)

Tuse(t_use) == IF t_use - ID > 0 THEN t_use - ID ELSE 0

MinOf(S) == CHOOSE x \in S : \A y \in S : x <= y

Producers(m, reg, first) ==
    {s \in first..WB : m.slots[s] # None
                       /\ get_wreg(m.pkts[m.slots[s]].kind, m.pkts[m.slots[s]].raw) = reg}

\* the comparison of Tuse with Tnew of the producer found in slot s
HazardAt(m, reg, t_use, s) ==
    IF Tuse(t_use) < remaining(m.pkts[m.slots[s]].kind, s)
    THEN HazardReason(reg, Tuse(t_use), remaining(m.pkts[m.slots[s]].kind, s))
    ELSE NoReason

\* a hazard detection that never raises StallException
_detect_hazard_never(m, reg, t_use) == NoReason

\* a hazard detection that takes the producer furthest down the pipeline
_detect_hazard_last(m, reg, t_use) ==
    IF reg = 0 \/ Producers(m, reg, EX) = {} THEN NoReason
    ELSE HazardAt(m, reg, t_use,
                  CHOOSE s \in Producers(m, reg, EX) : \A t \in Producers(m, reg, EX) : t <= s)

\* Pool._detect_hazard : the reason of the stall raised, or NoReason
_detect_hazard(m, reg, t_use) ==
    IF reg = 0 \/ Producers(m, reg, EX) = {} THEN NoReason
    ELSE HazardAt(m, reg, t_use, MinOf(Producers(m, reg, EX)))

RsHazard(m, p) ==
    IF tuse_rs(p.kind) # BEGIN
    THEN _detect_hazard(m, rs(p.raw), tuse_rs(p.kind)) ELSE NoReason

RtHazard(m, p) ==
    IF tuse_rt(p.kind) # BEGIN
    THEN _detect_hazard(m, rt(p.raw), tuse_rt(p.kind)) ELSE NoReason

FirstOf(h1, h2) == IF h1 # NoReason THEN h1 ELSE h2

\* raise StallException(reason) when there is a reason
StallIf(m, h) == IF h # NoReason THEN [Raise(m, "Stall") EXCEPT !.why = h] ELSE m

\* a check that lets every packet leave ID
check_stall_never(m, p) == m

\* Pool.check_stall : the machine, with exc = "Stall" when StallException is raised
check_stall(m, p) == StallIf(m, FirstOf(RsHazard(m, p), RtHazard(m, p)))

\* t_use of the reading packet for the register read
ReaderTuse(curpkt, reg) ==
    IF reg = rs(curpkt.raw) THEN tuse_rs(curpkt.kind) ELSE tuse_rt(curpkt.kind)

\* a read that logs the Forward and returns the word of the register file
ReadFrom_stale(m, reg, cur_stage, log, s, prod, curpkt, t_new) ==
    IF cur_stage = ID /\ Tuse(ReaderTuse(curpkt, reg)) < t_new
    THEN [m |-> StallIf(m, HazardReason(reg, Tuse(ReaderTuse(curpkt, reg)), t_new)),
          val |-> ZeroW]
    ELSE IF t_new = 0 /\ reg \in DOMAIN prod.alu
    THEN [m |-> IF log
                THEN log_behavior(m, ForwardBehavior(m.cycle, curpkt.pc, reg,
                         prod.alu[reg].new, StageName(s), StageName(cur_stage)))
                ELSE m,
          val |-> m.regs[reg]]
    ELSE [m |-> m, val |-> m.regs[reg]]

\* Pool.read_reg at the first downstream slot s whose packet prod writes reg
ReadFrom(m, reg, cur_stage, log, s, prod, curpkt, t_new) ==
    IF cur_stage = ID /\ Tuse(ReaderTuse(curpkt, reg)) < t_new
    THEN [m |-> StallIf(m, HazardReason(reg, Tuse(ReaderTuse(curpkt, reg)), t_new)),
          val |-> ZeroW]
    ELSE IF t_new = 0 /\ reg \in DOMAIN prod.alu
    THEN [m |-> IF log
                THEN log_behavior(m, ForwardBehavior(m.cycle, curpkt.pc, reg,
                         prod.alu[reg].new, StageName(s), StageName(cur_stage)))
                ELSE m,
          val |-> prod.alu[reg].new]
    ELSE [m |-> m, val |-> m.regs[reg]]

ReadAt(m, reg, cur_stage, log, s) ==
    ReadFrom(m, reg, cur_stage, log, s, m.pkts[m.slots[s]], m.pkts[m.slots[cur_stage]],
             remaining(m.pkts[m.slots[s]].kind, s))

\* a read that takes every value from the register file
read_reg_regfile(m, reg, cur_stage, log) == [m |-> m, val |-> m.regs[reg]]

\* Pool.read_reg : [m |-> machine after the call, val |-> value returned]
read_reg(m, reg, cur_stage, log) ==
    IF reg = 0 THEN [m |-> m, val |-> ZeroW]
    ELSE IF Producers(m, reg, PIPELINE(cur_stage)) = {}
    THEN [m |-> m, val |-> m.regs[reg]]
    ELSE ReadAt(m, reg, cur_stage, log, MinOf(Producers(m, reg, PIPELINE(cur_stage))))

\* Pool.read_mem
read_mem(m, addr) == Memory_read(m, addr)

\* packet.alu[reg] = Change(origin, new, reason), origin being the read r
SetAlu(r, m, id, reg, val, reason) ==
    IF r.m.exc # "none" THEN r.m
    ELSE [m EXCEPT !.pkts[id].alu =
             (reg :> [origin |-> r.val, new |-> val, reason |-> reason]) @@ @]

\* a write_reg that records a pending write for $0 as well
write_reg_any(m, id, reg, val, reason) ==
    SetAlu([m |-> m, val |-> ZeroW], m, id, reg, val, reason)

\* a write_reg that also stores the value in the register file at once
write_reg_direct(m, id, reg, val, reason) ==
    IF reg = 0 THEN m
    ELSE [SetAlu(read_reg(m, reg, m.pkts[id].stage, FALSE), m, id, reg, val, reason)
             EXCEPT !.regs[reg] = val]

\* Pool.write_reg(packet, reg, val, reason) for the packet of identity id
write_reg(m, id, reg, val, reason) ==
    IF reg = 0 THEN m
    ELSE SetAlu(read_reg(m, reg, m.pkts[id].stage, FALSE), m, id, reg, val, reason)

\* Pool.write_mem(packet, addr, val)
write_mem(m, id, addr, val) ==
    [m EXCEPT !.pkts[id].mem =
        (addr :> [origin |-> read_mem(m, addr), new |-> val, reason |-> "mem_write"]) @@ @]

----------------------------------------------------------------------------
(* mips/set.py : execute(packet) of each instruction class, for the packet *)
(* of identity id.  A raised exception is left in m.exc.                    *)

\* rs_val = read_reg(rs, stage) then rt_val = read_reg(rt, stage)
ReadRt(r1, id, cur_stage) ==
    IF r1.m.exc # "none" THEN [m |-> r1.m, val |-> ZeroW]
    ELSE read_reg(r1.m, rt(r1.m.pkts[id].raw), cur_stage, TRUE)

Operands(r1, r2) == [m |-> r2.m, rs_val |-> r1.val, rt_val |-> r2.val]

ReadRsRt(r1, id, cur_stage) == Operands(r1, ReadRt(r1, id, cur_stage))

ReadBoth(m, id, cur_stage) ==
    ReadRsRt(read_reg(m, rs(m.pkts[id].raw), cur_stage, TRUE), id, cur_stage)

AddWrite(r, id) ==
    IF r.m.exc # "none" THEN r.m
    ELSE write_reg(r.m, id, rd(r.m.pkts[id].raw), AddW(r.rs_val, r.rt_val), "add")

Add_execute(m, id) ==
    IF m.pkts[id].stage # EX THEN m ELSE AddWrite(ReadBoth(m, id, EX), id)

SubWrite(r, id) ==
    IF r.m.exc # "none" THEN r.m
    ELSE write_reg(r.m, id, rd(r.m.pkts[id].raw), SubW(r.rs_val, r.rt_val), "sub")

Sub_execute(m, id) ==
    IF m.pkts[id].stage # EX THEN m ELSE SubWrite(ReadBoth(m, id, EX), id)

Lui_execute(m, id) ==
    IF m.pkts[id].stage # EX THEN m
    ELSE write_reg(m, id, rt(m.pkts[id].raw), <<imm16(m.pkts[id].raw), 0>>, "lui")

OriWrite(r1, id) ==
    IF r1.m.exc # "none" THEN r1.m
    ELSE write_reg(r1.m, id, rt(r1.m.pkts[id].raw),
                   OrW(r1.val, imm16(r1.m.pkts[id].raw)), "ori")

\* an ori that computes its result one stage late, in its MEM phase
Ori_execute_late(m, id) ==
    IF m.pkts[id].stage # MEM THEN m
    ELSE OriWrite(read_reg(m, rs(m.pkts[id].raw), MEM, TRUE), id)

Ori_execute(m, id) ==
    IF m.pkts[id].stage # EX THEN m
    ELSE OriWrite(read_reg(m, rs(m.pkts[id].raw), EX, TRUE), id)

\* packet.optional["mem_addr"] = rs_val + imm16_signed
SetAddr(r1, id) ==
    IF r1.m.exc # "none" THEN r1.m
    ELSE [r1.m EXCEPT !.pkts[id].optional =
             ("mem_addr" :> AddW(r1.val, WordOfInt(imm16_signed(r1.m.pkts[id].raw)))) @@ @]

\* the EX phase shared by lw and sw
AddrPhase(m, id) == SetAddr(read_reg(m, rs(m.pkts[id].raw), EX, TRUE), id)

Lw_execute(m, id) ==
    IF m.pkts[id].stage = EX THEN AddrPhase(m, id)
    ELSE IF m.pkts[id].stage = MEM THEN
        IF "mem_addr" \notin DOMAIN m.pkts[id].optional THEN Raise(m, "KeyError")
        ELSE write_reg(m, id, rt(m.pkts[id].raw),
                       read_mem(m, m.pkts[id].optional["mem_addr"]), "lw")
    ELSE m

\* packet.pool.write_mem(addr, rt_val) lacks the packet argument: TypeError
SwWrite(r2, id) == IF r2.m.exc # "none" THEN r2.m ELSE Raise(r2.m, "TypeError")

Sw_execute(m, id) ==
    IF m.pkts[id].stage = EX THEN AddrPhase(m, id)
    ELSE IF m.pkts[id].stage = MEM THEN
        IF "mem_addr" \notin DOMAIN m.pkts[id].optional THEN Raise(m, "KeyError")
        ELSE SwWrite(read_reg(m, rt(m.pkts[id].raw), MEM, TRUE), id)
    ELSE m

BeqTarget(p) == NumAdd(NumAdd(p.pc, 4), imm16_signed(p.raw) * 4)

BeqDecide(r, id) ==
    IF r.m.exc # "none" THEN r.m
    ELSE IF r.rs_val = r.rt_val
    THEN [r.m EXCEPT !.pkts[id].npc = BeqTarget(r.m.pkts[id])]
    ELSE r.m

Beq_execute(m, id) ==
    IF m.pkts[id].stage # ID THEN m ELSE BeqDecide(ReadBoth(m, id, ID), id)

JrJump(r1, id) ==
    IF r1.m.exc # "none" THEN r1.m
    ELSE [r1.m EXCEPT !.pkts[id].npc = PyWord(r1.val)]

Jr_execute(m, id) ==
    IF m.pkts[id].stage # ID THEN m
    ELSE JrJump(read_reg(m, rs(m.pkts[id].raw), ID, TRUE), id)

\* (imm26 << 2) | ((pc + 4) & 0xF0000000) for an int pc; int | Word is a TypeError
JalTarget(ppc, raw) == imm26(raw) * 4 + (((ppc + 4) \div 268435456) % 16) * 268435456

Jal_execute(m, id) ==
    IF m.pkts[id].stage # ID THEN m
    ELSE IF m.pkts[id].pc.w THEN Raise(m, "TypeError")
    ELSE write_reg([m EXCEPT !.pkts[id].npc = PyInt(JalTarget(m.pkts[id].pc.i, m.pkts[id].raw))],
                   id, 31, WordOfInt(m.pkts[id].pc.i + 8), "jal")

Nop_execute(m, id) == m

execute(m, id) ==
    CASE m.pkts[id].kind = "add" -> Add_execute(m, id)
      [] m.pkts[id].kind = "sub" -> Sub_execute(m, id)
      [] m.pkts[id].kind = "lui" -> Lui_execute(m, id)
      [] m.pkts[id].kind = "ori" -> Ori_execute(m, id)
      [] m.pkts[id].kind = "lw"  -> Lw_execute(m, id)
      [] m.pkts[id].kind = "sw"  -> Sw_execute(m, id)
      [] m.pkts[id].kind = "beq" -> Beq_execute(m, id)
      [] m.pkts[id].kind = "jr"  -> Jr_execute(m, id)
      [] m.pkts[id].kind = "jal" -> Jal_execute(m, id)
      [] OTHER     -> Nop_execute(m, id)

----------------------------------------------------------------------------
(* cpu.py : the stage functions of CPU.  Each takes the machine and gives *)
(* the machine after the call; a stage is skipped once m.exc is set,      *)
(* because the exception has left step().                                 *)

\* for reg_id, change in p.alu.items(): self.regs.write(reg_id, change.new, p.pc)
WriteBack(m, p) ==
    IF DOMAIN p.alu = {} THEN m
    ELSE RegisterFile_write(m, MinOf(DOMAIN p.alu), p.alu[MinOf(DOMAIN p.alu)].new, p.pc)

AdvanceWB(m, id) == WriteBack(m, m.pkts[id])

_stage_wb(m) ==
    IF m.exc # "none" \/ m.slots[WB] = None THEN m
    ELSE IF ~CanAdvance(m.pkts[m.slots[WB]]) THEN Raise(m, "KeyError")
    ELSE AdvanceWB([m EXCEPT !.pkts[m.slots[WB]] = advance(@)], m.slots[WB])

AnyOf(S) == CHOOSE a \in S : TRUE

\* for addr, change in p.mem.items(): self.dmem.write(addr, change.new, p.pc)
WriteMems(m, p) ==
    IF DOMAIN p.mem = {} THEN m
    ELSE Memory_write(m, AnyOf(DOMAIN p.mem), p.mem[AnyOf(DOMAIN p.mem)].new, p.pc)

MemCommit(m1, id) ==
    IF m1.exc # "none" THEN m1
    ELSE [WriteMems(m1, m1.pkts[id]) EXCEPT !.slots[WB] = id]

_stage_mem(m) ==
    IF m.exc # "none" THEN m
    ELSE IF m.slots[MEM] = None THEN [m EXCEPT !.slots[WB] = None]
    ELSE IF ~CanAdvance(m.pkts[m.slots[MEM]]) THEN Raise(m, "KeyError")
    ELSE MemCommit(execute([m EXCEPT !.pkts[m.slots[MEM]] = advance(@)], m.slots[MEM]),
                   m.slots[MEM])

ExCommit(m1, id) ==
    IF m1.exc # "none" THEN m1 ELSE [m1 EXCEPT !.slots[MEM] = id]

_stage_ex(m) ==
    IF m.exc # "none" THEN m
    ELSE IF m.slots[EX] = None THEN [m EXCEPT !.slots[MEM] = None]
    ELSE IF ~CanAdvance(m.pkts[m.slots[EX]]) THEN Raise(m, "KeyError")
    ELSE ExCommit(execute([m EXCEPT !.pkts[m.slots[EX]] = advance(@)], m.slots[EX]),
                  m.slots[EX])

\* the end of the try block, or the except StallException clause
IdCommit(m3, id) ==
    IF m3.exc = "none"
    THEN [m3 EXCEPT !.slots[EX] = id, !.stalled = FALSE]
    ELSE IF m3.exc = "Stall"
    THEN [log_behavior([m3 EXCEPT !.slots[EX] = None],
                       StallBehavior(m3.cycle, m3.pkts[id].pc, "ID", m3.why))
            EXCEPT !.exc = "none", !.stalled = TRUE]
    ELSE m3

IdExecute(m2, id) == IdCommit(IF m2.exc # "none" THEN m2 ELSE execute(m2, id), id)

IdCheck(m1, id) == IdExecute(check_stall(m1, m1.pkts[id]), id)

\* the result carries is_stalled in the field stalled
_stage_id(m) ==
    IF m.exc # "none" THEN m
    ELSE IF m.slots[ID] = None THEN [m EXCEPT !.slots[EX] = None, !.stalled = FALSE]
    ELSE IF m.pkts[m.slots[ID]].stage # ID /\ ~CanAdvance(m.pkts[m.slots[ID]])
    THEN Raise(m, "KeyError")
    ELSE IdCheck(IF m.pkts[m.slots[ID]].stage # ID
                 THEN [m EXCEPT !.pkts[m.slots[ID]] = advance(@)] ELSE m,
                 m.slots[ID])

\* 0 <= (fetch_pc - 0x3000) // 4 < len(imem)
FetchInRange(m, fetch_pc) ==
    IF fetch_pc.w
    THEN SubW(fetch_pc.hl, <<0, 12288>>)[1] = 0
         /\ SubW(fetch_pc.hl, <<0, 12288>>)[2] \div 4 < Len(m.imem)
    ELSE 0 <= (fetch_pc.i - 12288) \div 4 /\ (fetch_pc.i - 12288) \div 4 < Len(m.imem)

FetchIndex(fetch_pc) ==
    IF fetch_pc.w THEN SubW(fetch_pc.hl, <<0, 12288>>)[2] \div 4
    ELSE (fetch_pc.i - 12288) \div 4

\* p_id and p_id.npc != p_id.pc + 4
Taken(m, p_id) == p_id # None /\ NumNe(m.pkts[p_id].npc, NumAdd(m.pkts[p_id].pc, 4))

\* self.slots[Stage.ID] = Packet(pool, pc=fetch_pc, instr=decode(imem[idx], fetch_pc))
Fetch(m1, fetch_pc, id) ==
    [m1 EXCEPT !.created = id,
               !.pkts = (id :> NewPacket(fetch_pc, m1.imem[FetchIndex(fetch_pc) + 1])) @@ @,
               !.slots[ID] = id]

\* the part of _stage_if after self.pc is set; m is the machine before it
FetchOrBubble(m, m1, fetch_pc, p_id) ==
    IF FetchInRange(m, fetch_pc)
    THEN IF Taken(m, p_id)
         THEN log_behavior(Fetch(m1, fetch_pc, m.created + 1),
                           BranchBehavior(m.cycle, m.pkts[p_id].pc, m.pkts[p_id].npc, TRUE))
         ELSE Fetch(m1, fetch_pc, m.created + 1)
    ELSE [m1 EXCEPT !.slots[ID] = None]

\* a fetch that is redirected to the target of a taken branch in the same cycle
_stage_if_redirect(m) ==
    IF m.exc # "none" \/ m.stalled THEN m
    ELSE IF Taken(m, m.slots[ID])
    THEN FetchOrBubble(m, [m EXCEPT !.pc = NumAdd(m.pkts[m.slots[ID]].npc, 4)],
                       m.pkts[m.slots[ID]].npc, m.slots[ID])
    ELSE FetchOrBubble(m, [m EXCEPT !.pc = NumAdd(m.pc, 4)], m.pc, m.slots[ID])

_stage_if(m) ==
    IF m.exc # "none" \/ m.stalled THEN m
    ELSE FetchOrBubble(m,
             [m EXCEPT !.pc = IF Taken(m, m.slots[ID])
                              THEN m.pkts[m.slots[ID]].npc ELSE NumAdd(m.pc, 4)],
             m.pc, m.slots[ID])

\* a snapshot that keeps references to the register file, the data memory and
\* the behavior list of the CPU: every snapshot shows what these hold now
capture_snapshot_live(m) ==
    IF m.exc # "none" THEN m
    ELSE IF \E s \in IF_..WB : m.slots[s] # None THEN Raise(m, "TypeError")
    ELSE [m EXCEPT !.history = Append(
             [k \in DOMAIN @ |-> [@[k] EXCEPT !.gpr = m.regs, !.memory = m.dmem,
                                               !.behaviors = m.behaviors]],
             [cycle |-> m.cycle, pc |-> hex32(m.pc), gpr |-> m.regs,
              memory |-> m.dmem,
              pipeline |-> [s \in IF_..WB |-> None],
              behaviors |-> m.behaviors])]

\* StageStatus(..., disasm=p.instr.disassemble(p.pc), ...) passes an argument that
\* no disassemble(self) accepts: TypeError at the first occupied slot
capture_snapshot(m) ==
    IF m.exc # "none" THEN m
    ELSE IF \E s \in IF_..WB : m.slots[s] # None THEN Raise(m, "TypeError")
    ELSE [m EXCEPT !.history = Append(@,
             [cycle |-> m.cycle, pc |-> hex32(m.pc), gpr |-> m.regs,
              memory |-> m.dmem,
              pipeline |-> [s \in IF_..WB |-> None],
              behaviors |-> m.behaviors])]

\* the first three statements of CPU.step
BeginStep(m) ==
    [m EXCEPT !.cycle = @ + 1, !.behaviors = <<>>, !.shadows = m.slots,
              !.exc = "none", !.why = NoReason, !.stalled = FALSE]

\* a step that runs the WB stage after the IF stage
step_wb_last(m) ==
    capture_snapshot(_stage_wb(_stage_if(_stage_id(_stage_ex(_stage_mem(BeginStep(m)))))))

\* CPU.step ; an exception raised by a stage leaves step() at once
step(m) ==
    capture_snapshot(_stage_if(_stage_id(_stage_ex(_stage_mem(_stage_wb(BeginStep(m)))))))

\* packet objects no slot or shadow refers to any more are gone
Live(m) == {m.slots[s] : s \in Stage} \cup {m.shadows[s] : s \in Stage}

Machine ==
    [imem |-> imem, pc |-> pc, regs |-> regs, dmem |-> dmem, cycle |-> cycle,
     slots |-> slots, shadows |-> shadows, pkts |-> pkts, created |-> created,
     behaviors |-> behaviors, history |-> history, exc |-> exc,
     why |-> NoReason, stalled |-> FALSE]

----------------------------------------------------------------------------
(* Programs given to CPU(machine_codes): machine words built from the bit *)
(* fields that mips/isa.py extracts.                                       *)

EncR(s, t, d, fn) == <<s * 32 + t, d * 2048 + fn>>
EncI(op, s, t, imm) == <<op * 1024 + s * 32 + t, imm % TwoTo16>>
EncJ(op, addr) == <<op * 1024 + (addr \div 4) \div TwoTo16, (addr \div 4) % TwoTo16>>

ADD(d, s, t) == EncR(s, t, d, 32)
SUB(d, s, t) == EncR(s, t, d, 34)
JR(s) == EncR(s, 0, 0, 8)
NOP == <<0, 0>>
LUI(t, imm) == EncI(15, 0, t, imm)
ORI(t, s, imm) == EncI(13, s, t, imm)
LW(t, imm, s) == EncI(35, s, t, imm)
SW(t, imm, s) == EncI(43, s, t, imm)
BEQ(s, t, imm) == EncI(4, s, t, imm)
JAL(addr) == EncJ(3, addr)

\* beq $0,$0,-1 = 0x1000FFFF
HALT == <<4096, 65535>>

InstrPool ==
    { NOP, ORI(1, 0, 5), ORI(2, 0, 7), ADD(3, 1, 2), LW(2, 16, 0),
      SW(1, 0, 2), BEQ(1, 2, 1), JAL(12300), JR(31), ORI(0, 0, 65535) }

DataPool ==
    { NOP, ORI(1, 0, 16), LUI(2, 65535), ADD(1, 1, 2), SUB(2, 2, 1),
      LW(2, 0, 1), LW(1, 16, 0), ADD(2, 2, 2), LW(2, 65532, 1) }

SeqsUpTo(S, n) == UNION {[1..k -> S] : k \in 1..n}

Scenarios ==
    { <<ORI(1, 0, 5), ORI(2, 0, 7), ADD(3, 1, 2), HALT>>,
      <<ORI(1, 0, 16), LW(2, 0, 1), ADD(3, 2, 2), HALT>>,
      <<ORI(1, 0, 48879), ORI(2, 0, 32), SW(1, 0, 2), LW(3, 0, 2), ADD(4, 3, 0), HALT>>,
      <<ORI(1, 0, 1), ORI(2, 0, 1), BEQ(1, 2, 1), ORI(3, 0, 255), ORI(4, 0, 170), HALT>>,
      <<JAL(12304), NOP, NOP, NOP, ORI(2, 0, 66), JR(31), NOP, HALT>>,
      <<JAL(12300), NOP, JAL(12300), JR(31)>>,
      <<JAL(12300), NOP, JAL(12300), JR(31), ORI(1, 0, 5)>>,
      <<ORI(0, 0, 65535), ADD(1, 0, 0), HALT>>,
      <<ADD(31, 0, 0), JAL(12296), NOP>>,
      <<LW(31, 16, 0), JAL(12296), NOP>>,
      <<HALT>> }

Programs == SeqsUpTo(InstrPool, MaxProg) \cup Scenarios

\* machine words of every opcode and every funct, the other 20 bits all 0 or all 1
DecodeWords ==
    {<<op * 1024 + mid, mid * 64 + fn>> : op \in 0..63, fn \in 0..63, mid \in {0, 1023}}

DecodePrograms == {<<w>> : w \in DecodeWords}

DataPrograms == SeqsUpTo(DataPool, MaxProg)

\* data memory at the start: empty as CPU.__init__ leaves it, or seeded
Memories ==
    { NoMap,
      (<<0, 16>> :> <<57005, 48879>>) @@ (<<65535, 16>> :> <<32768, 1>>)
        @@ (<<65535, 65532>> :> <<0, 4660>>) }

----------------------------------------------------------------------------
(* pymipspipeline/cpu.py : the CPU with the run loop.  The record holds the *)
(* fields cycle, halt and pipeline_stages of the object, the argument of    *)
(* the run call and the place the call is at: "new" before the call,        *)
(* "loop" at the loop test, "returned", or "raised" when an exception has   *)
(* left run.                                                                *)

\* CPU.__init__
pymips_CPU ==
    [cycle |-> 0, halt |-> FALSE, pipeline_stages |-> [s \in Stage |-> None],
     max_cycles |-> 0, at |-> "new", exc |-> "none"]

\* _do_wb, _do_mem, _do_ex and _do_id when their slot is empty
pymips_do_wb(c) == c
pymips_do_mem(c) == [c EXCEPT !.pipeline_stages[WB] = None]
pymips_do_ex(c) == [c EXCEPT !.pipeline_stages[MEM] = None]
pymips_do_id(c) == [c EXCEPT !.pipeline_stages[EX] = None]

\* _do_if : the ID slot is empty, so the return for a stalled packet is not
\* taken; Packet(pool=self.pool, pc=self.pc, cpu=self) names a field cpu that
\* Packet does not have and lacks instr: TypeError
pymips_do_if(c) == [c EXCEPT !.exc = "TypeError"]

\* log_cycle_state : nothing of the record changes; not reached after a raise
pymips_log_cycle_state(c) == c

\* CPU.step
pymips_step(c) ==
    IF c.halt THEN c
    ELSE pymips_log_cycle_state(pymips_do_if(pymips_do_id(pymips_do_ex(
             pymips_do_mem(pymips_do_wb([c EXCEPT !.cycle = @ + 1]))))))

\* while self.cycle < max_cycles and not self.halt
pymips_run_test(c) == c.cycle < c.max_cycles /\ ~c.halt

\* back to the loop test, unless the body has raised
pymips_loop(c) == IF c.exc # "none" THEN [c EXCEPT !.at = "raised"] ELSE c

----------------------------------------------------------------------------
(* The state machine *)

cpuvars == <<imem, pc, regs, dmem, cycle, slots, shadows, pkts, created,
             behaviors, history, exc>>

\* CPU.__init__ ; shadows is None until the first step
InitCPU ==
    /\ pc = PyInt(12288)
    /\ regs = [r \in 0..31 |-> ZeroW]
    /\ cycle = 0
    /\ slots = [s \in Stage |-> None]
    /\ shadows = [s \in Stage |-> None]
    /\ pkts = NoMap
    /\ created = 0
    /\ behaviors = <<>>
    /\ history = <<>>
    /\ exc = "none"
    /\ rcpu = pymips_CPU

Init ==
    /\ imem \in Programs
    /\ dmem \in Memories
    /\ InitCPU

InitData ==
    /\ imem \in DataPrograms
    /\ dmem \in Memories
    /\ InitCPU

InitDecode ==
    /\ imem \in DecodePrograms
    /\ dmem = NoMap
    /\ InitCPU

\* the machine m becomes the next state
Becomes(m) ==
    /\ pc' = m.pc
    /\ regs' = m.regs
    /\ dmem' = m.dmem
    /\ cycle' = m.cycle
    /\ slots' = m.slots
    /\ shadows' = m.shadows
    /\ pkts' = [id \in (DOMAIN m.pkts) \cap Live(m) |-> m.pkts[id]]
    /\ created' = m.created
    /\ behaviors' = m.behaviors
    /\ history' = m.history
    /\ exc' = m.exc

\* one call of CPU.step(); exc tells how the call ended
Step ==
    /\ cycle < MaxCycle
    /\ Becomes(step(Machine))
    /\ UNCHANGED <<imem, rcpu>>

Next == Step

Spec == Init /\ [][Next]_vars

SpecData == InitData /\ [][Next]_vars

SpecDecode == InitDecode /\ [][Next]_vars

\* a call run(max_cycles) on a new CPU of pymipspipeline
RunCall ==
    /\ rcpu.at = "new"
    /\ \E max_cycles \in 0..MaxRun :
          rcpu' = [rcpu EXCEPT !.at = "loop", !.max_cycles = max_cycles]
    /\ UNCHANGED cpuvars

\* the loop test holds and the body self.step() is executed
RunStep ==
    /\ rcpu.at = "loop"
    /\ pymips_run_test(rcpu)
    /\ rcpu' = pymips_loop(pymips_step(rcpu))
    /\ UNCHANGED cpuvars

\* the loop test fails and run returns
RunReturn ==
    /\ rcpu.at = "loop"
    /\ ~pymips_run_test(rcpu)
    /\ rcpu' = [rcpu EXCEPT !.at = "returned"]
    /\ UNCHANGED cpuvars

NextRun == RunCall \/ RunStep \/ RunReturn

SpecRun == Init /\ [][NextRun]_vars

----------------------------------------------------------------------------
(* Vocabulary of the properties *)

\* the packet object a slot or a shadow refers to
Pkt(id) == pkts[id]

Behaviors(type) == {behaviors[i] : i \in {j \in DOMAIN behaviors : behaviors[j].type = type}}

Drained == cycle > 0 /\ \A s \in IF_..WB : slots[s] = None

\* the packet that WB has processed in the step just taken, or None
Committed ==
    IF shadows[WB] # None /\ shadows[WB] \in DOMAIN pkts /\ Pkt(shadows[WB]).stage = WB
    THEN shadows[WB] ELSE None

----------------------------------------------------------------------------
(* The reference interpreter: the instructions of a program executed one *)
(* after the other, each completing before the next starts.              *)

RefSet(r, reg, val) == IF reg = 0 THEN r ELSE [r EXCEPT ![reg] = val]

RefExec(raw, r, mem) ==
    LET k == decode(raw) IN
    CASE k = "add" -> RefSet(r, rd(raw), AddW(r[rs(raw)], r[rt(raw)]))
      [] k = "sub" -> RefSet(r, rd(raw), SubW(r[rs(raw)], r[rt(raw)]))
      [] k = "lui" -> RefSet(r, rt(raw), <<imm16(raw), 0>>)
      [] k = "ori" -> RefSet(r, rt(raw), OrW(r[rs(raw)], imm16(raw)))
      [] k = "lw"  -> RefSet(r, rt(raw),
                             Get(mem, AddW(r[rs(raw)], WordOfInt(imm16_signed(raw))), ZeroW))
      [] OTHER     -> r

RECURSIVE RefRegs(_, _, _)
RefRegs(prog, n, mem) ==
    IF n = 0 THEN [r \in 0..31 |-> ZeroW]
    ELSE RefExec(prog[n], RefRegs(prog, n - 1, mem), mem)

----------------------------------------------------------------------------
(* C1: for a straight-line program of add, sub, lui, ori, lw and nop, the   *)
(* register file after the n-th instruction has committed in WB equals the  *)
(* register file of the reference interpreter after n instructions, and the *)
(* register file of the drained pipeline equals that of the reference       *)
(* interpreter after the whole program: stalls and forwards never change    *)
(* the architectural result.                                                *)
Inv_C1 ==
    /\ Committed # None =>
         regs = RefRegs(imem, FetchIndex(Pkt(Committed).pc) + 1, dmem)
    /\ Drained => regs = RefRegs(imem, Len(imem), dmem)

\* a drained run of a program in which a lw is followed by a consumer of the
\* loaded register, whose result has been committed
Wit_C1 ==
    /\ Drained
    /\ \E i \in 1..(Len(imem) - 1) :
         /\ decode(imem[i]) = "lw" /\ rt(imem[i]) # 0
         /\ decode(imem[i + 1]) \in {"add", "sub"}
         /\ rt(imem[i]) \in {rs(imem[i + 1]), rt(imem[i + 1])}
         /\ rd(imem[i + 1]) # 0
         /\ regs[rd(imem[i + 1])] # ZeroW

----------------------------------------------------------------------------
(* Branches *)

Control == {"beq", "jr", "jal"}

\* packet.npc != packet.pc + 4
IsTaken(p) == NumNe(p.npc, NumAdd(p.pc, 4))

SamePc(a, b) == ~NumNe(a, b)

OneBranch == Cardinality({i \in DOMAIN imem : decode(imem[i]) \in Control}) = 1

\* a taken branch has passed WB in the step just taken, and the packet fetched
\* right behind it, from the address after the branch, is next in the WB slot
DelaySlotAtWB ==
    /\ Committed # None /\ slots[WB] # None /\ slots[WB] = Committed + 1
    /\ Pkt(Committed).kind \in Control /\ IsTaken(Pkt(Committed))
    /\ SamePc(Pkt(slots[WB]).pc, NumAdd(Pkt(Committed).pc, 4))

\* the branch is the only one of the program and does not aim at the address
\* after it: the packet behind it is on the wrong path
WrongPathAtWB ==
    /\ DelaySlotAtWB
    /\ NumNe(Pkt(slots[WB]).pc, Pkt(Committed).npc)
    /\ OneBranch

----------------------------------------------------------------------------
(* Halting *)

\* WB has processed the sentinel beq $0,$0,-1 in the step just taken
HaltCommitted == Committed # None /\ Pkt(Committed).raw = HALT

(* C3: after WB has processed the halt sentinel 0x1000FFFF the CPU is halted: *)
(* a further step() changes neither cycle, pc, registers, memory, slots nor   *)
(* history.                                                                   *)
CE_C3 ==
    [][HaltCommitted => UNCHANGED <<cycle, pc, regs, dmem, slots, history>>]_vars

----------------------------------------------------------------------------
(* The zero register *)

HistoryBehaviors ==
    UNION {{history[i].behaviors[j] : j \in DOMAIN history[i].behaviors} : i \in DOMAIN history}

(* C4: $0 is never written: the register file and the gpr of every snapshot *)
(* hold 0 in it, no packet carries a pending write to it, no RegWrite and   *)
(* no Forward names it, and Pool.read_reg(0, stage) returns 0 and leaves    *)
(* the machine as it is, from every stage.                                  *)
Inv_C4 ==
    /\ regs[0] = ZeroW
    /\ \A i \in DOMAIN history : history[i].gpr[0] = ZeroW
    /\ \A id \in DOMAIN pkts : 0 \notin DOMAIN Pkt(id).alu
    /\ \A b \in Behaviors("RegWrite") \cup Behaviors("Forward") : b.reg # 0
    /\ \A b \in HistoryBehaviors : b.type \in {"RegWrite", "Forward"} => b.reg # 0
    /\ \A s \in {ID, EX, MEM} :
         read_reg(Machine, 0, s, TRUE) = [m |-> Machine, val |-> ZeroW]

\* ori $0,$0,0xFFFF has passed WB
Wit_C4 ==
    /\ Committed # None
    /\ Pkt(Committed).raw = ORI(0, 0, 65535)
    /\ regs[0] = ZeroW

----------------------------------------------------------------------------
(* Load-use *)

\* the packet p reads register r with Tuse = EX
UsesAtEX(p, r) ==
    \/ tuse_rs(p.kind) = EX /\ rs(p.raw) = r
    \/ tuse_rt(p.kind) = EX /\ rt(p.raw) = r

\* l is a lw and c the instruction right behind it, which consumes the loaded
\* register in EX
LoadUse(l, c) ==
    /\ l \in DOMAIN pkts /\ c \in DOMAIN pkts /\ c = l + 1
    /\ Pkt(l).kind = "lw" /\ rt(Pkt(l).raw) # 0
    /\ SamePc(Pkt(c).pc, NumAdd(Pkt(l).pc, 4))
    /\ UsesAtEX(Pkt(c), rt(Pkt(l).raw))

\* the value the register file gives for register x
RegVal(rf, x) == IF x = 0 THEN ZeroW ELSE rf[x]

\* the effect of the EX phase of p on operand values taken from rf
ExResult(p, rf) ==
    CASE p.kind = "add" ->
           rd(p.raw) # 0 => /\ rd(p.raw) \in DOMAIN p.alu
                            /\ p.alu[rd(p.raw)].new =
                                 AddW(RegVal(rf, rs(p.raw)), RegVal(rf, rt(p.raw)))
      [] p.kind = "sub" ->
           rd(p.raw) # 0 => /\ rd(p.raw) \in DOMAIN p.alu
                            /\ p.alu[rd(p.raw)].new =
                                 SubW(RegVal(rf, rs(p.raw)), RegVal(rf, rt(p.raw)))
      [] p.kind = "ori" ->
           rt(p.raw) # 0 => /\ rt(p.raw) \in DOMAIN p.alu
                            /\ p.alu[rt(p.raw)].new =
                                 OrW(RegVal(rf, rs(p.raw)), imm16(p.raw))
      [] p.kind \in {"lw", "sw"} ->
           /\ "mem_addr" \in DOMAIN p.optional
           /\ p.optional["mem_addr"] =
                AddW(RegVal(rf, rs(p.raw)), WordOfInt(imm16_signed(p.raw)))
      [] OTHER -> TRUE

\* the consumer waits in ID, not yet processed there, behind the lw in EX
FirstTry(l, c) ==
    LoadUse(l, c) /\ slots[ID] = c /\ slots[EX] = l /\ Pkt(c).stage = IF_

\* the consumer has been stalled in ID and the lw has done its EX phase
SecondTry(l, c) ==
    LoadUse(l, c) /\ slots[ID] = c /\ slots[MEM] = l /\ Pkt(c).stage = ID

\* the consumer is about to do its EX phase and the lw to be committed
ReadyToRead(l, c) ==
    /\ LoadUse(l, c) /\ slots[EX] = c /\ slots[WB] = l
    /\ Pkt(c).stage = ID /\ Pkt(l).stage = MEM

(* C5: a consumer right behind a lw that needs the loaded register in EX is *)
(* stalled in ID in the cycle it is first processed there (one Stall, the   *)
(* consumer stays in ID, a bubble goes to EX), is not stalled again and     *)
(* advances the next time ID runs, and in its EX phase finds in the         *)
(* register file the word the lw has loaded from memory, committed by WB in *)
(* the same cycle.                                                          *)
Thm_C5 ==
    [][\A l \in DOMAIN pkts : \A c \in DOMAIN pkts :
        /\ FirstTry(l, c) =>
             /\ slots'[EX] # c
             /\ pkts'[c].stage = ID =>
                  /\ Behaviors("Stall")' =
                       {StallBehavior(cycle', Pkt(c).pc, "ID",
                                      HazardReason(rt(Pkt(l).raw), 1, 2))}
                  /\ slots'[ID] = c /\ slots'[EX] = None /\ slots'[MEM] = l
        /\ SecondTry(l, c) =>
             /\ Behaviors("Stall")' = {}
             /\ pkts'[l].stage = MEM =>
                  /\ slots'[EX] = c /\ slots'[MEM] = None /\ slots'[WB] = l
        /\ ReadyToRead(l, c) /\ cycle' # cycle =>
             /\ rt(Pkt(l).raw) \in DOMAIN Pkt(l).alu
             /\ Pkt(l).alu[rt(Pkt(l).raw)].new =
                  Memory_read(Machine, Pkt(l).optional["mem_addr"])
             /\ regs'[rt(Pkt(l).raw)] = Pkt(l).alu[rt(Pkt(l).raw)].new
             /\ slots'[MEM] = c /\ pkts'[c].stage = EX
             /\ ExResult(pkts'[c], regs')
             /\ \A b \in Behaviors("Forward")' : b.to_stage # "EX"
      ]_vars

\* the consumer has done its EX phase in the cycle in which the loaded word,
\* not zero, has been committed
Wit_C5 ==
    /\ Committed # None /\ slots[MEM] # None
    /\ LoadUse(Committed, slots[MEM])
    /\ Pkt(slots[MEM]).stage = EX
    /\ regs[rt(Pkt(Committed).raw)] # ZeroW
    /\ regs[rt(Pkt(Committed).raw)] = Pkt(Committed).alu[rt(Pkt(Committed).raw)].new

----------------------------------------------------------------------------
(* ALU forwarding *)

\* o1 and o2 are two ori that write different registers and a is the add
\* right behind them that reads o1's register as rs and o2's as rt
OriOriAdd(o1, o2, a) ==
    /\ o1 \in DOMAIN pkts /\ o2 \in DOMAIN pkts /\ a \in DOMAIN pkts
    /\ o2 = o1 + 1 /\ a = o2 + 1
    /\ Pkt(o1).kind = "ori" /\ Pkt(o2).kind = "ori" /\ Pkt(a).kind = "add"
    /\ SamePc(Pkt(o2).pc, NumAdd(Pkt(o1).pc, 4))
    /\ SamePc(Pkt(a).pc, NumAdd(Pkt(o2).pc, 4))
    /\ rt(Pkt(o1).raw) # 0 /\ rt(Pkt(o2).raw) # 0
    /\ rt(Pkt(o1).raw) # rt(Pkt(o2).raw)
    /\ rs(Pkt(a).raw) = rt(Pkt(o1).raw) /\ rt(Pkt(a).raw) = rt(Pkt(o2).raw)

\* the add is about to do its EX phase
AddAtEX(o1, o2, a) ==
    /\ OriOriAdd(o1, o2, a)
    /\ slots[EX] = a /\ slots[MEM] = o2 /\ slots[WB] = o1
    /\ Pkt(a).stage = ID

\* the program ori $1,$0,5; ori $2,$0,7; add $3,$1,$2 with or without the halt
OriOriAddProgram ==
    imem \in {<<ORI(1, 0, 5), ORI(2, 0, 7), ADD(3, 1, 2)>>,
              <<ORI(1, 0, 5), ORI(2, 0, 7), ADD(3, 1, 2), HALT>>}

\* the Forward behaviors whose reader is in EX
ForwardsToEX == {b \in Behaviors("Forward") : b.to_stage = "EX"}

----------------------------------------------------------------------------
(* Cycle structure *)

\* the packet that was in ID is stalled by the step: a Stall is logged for it,
\* it stays in ID and EX gets a bubble
StalledBy ==
    /\ slots'[EX] = None /\ slots'[ID] = slots[ID]
    /\ \E b \in Behaviors("Stall")' : b.pc = Pkt(slots[ID]).pc /\ b.stage = "ID"

\* the packet that was in ID is in EX after the step
AdvancedBy == slots'[EX] = slots[ID]

(* C7: in every cycle that starts with a packet in ID, that packet is either *)
(* stalled or advanced to EX, never both and never neither; when it is       *)
(* stalled it stays in ID, EX gets a bubble, pc is unchanged, nothing is     *)
(* fetched, one Stall is logged and data memory is untouched.                *)
CE_C7 ==
    [][(slots[ID] # None /\ cycle' # cycle) =>
          /\ StalledBy \/ AdvancedBy
          /\ ~(StalledBy /\ AdvancedBy)
          /\ StalledBy => /\ pc' = pc /\ created' = created
                          /\ Cardinality(Behaviors("Stall")') = 1
                          /\ dmem' = dmem]_vars

(* C8: at the end of every cycle the WB slot holds the packet that was in   *)
(* MEM at its start, the MEM slot the one that was in EX, and the EX slot   *)
(* the one that was in ID, or a bubble when ID was stalled.                 *)
CE_C8 ==
    [][cycle' # cycle =>
          /\ slots'[WB] = slots[MEM]
          /\ slots'[MEM] = slots[EX]
          /\ slots'[EX] = IF Behaviors("Stall")' # {} THEN None ELSE slots[ID]]_vars

(* C9: in the cycle in which a sw does its MEM phase, data memory at the   *)
(* address computed in EX is written and a MemWrite for it is logged.      *)
CE_C9 ==
    [][(/\ slots[MEM] # None /\ Pkt(slots[MEM]).kind = "sw"
        /\ Pkt(slots[MEM]).stage = EX /\ pkts'[slots[MEM]].stage = MEM) =>
          /\ Pkt(slots[MEM]).optional["mem_addr"] \in DOMAIN dmem'
          /\ \E b \in Behaviors("MemWrite")' :
               b.addr = Pkt(slots[MEM]).optional["mem_addr"]]_vars

\* ((P + 4) & 0xF0000000) | (imm26 << 2) as a 32-bit word
JumpWord(p) ==
    <<(AddW(ToWord(p.pc), <<0, 4>>)[1] \div 4096) * 4096 + (imm26(p.raw) * 4) \div TwoTo16,
      (imm26(p.raw) * 4) % TwoTo16>>

(* C10: a jal at address P that does its ID phase sets npc to                *)
(* ((P + 4) & 0xF0000000) | (imm26 << 2) and records the pending write       *)
(* $31 = P + 8.                                                              *)
CE_C10 ==
    [][(/\ slots[ID] # None /\ Pkt(slots[ID]).kind = "jal"
        /\ Pkt(slots[ID]).stage = IF_ /\ pkts'[slots[ID]].stage = ID) =>
          /\ ToWord(pkts'[slots[ID]].npc) = JumpWord(Pkt(slots[ID]))
          /\ 31 \in DOMAIN pkts'[slots[ID]].alu
          /\ pkts'[slots[ID]].alu[31].new = AddW(ToWord(Pkt(slots[ID]).pc), <<0, 8>>)]_vars

----------------------------------------------------------------------------
(* Register writes and snapshots *)

\* the positions of the behavior list bs that hold a RegWrite of register r
RegWritesOf(bs, r) == {i \in DOMAIN bs : bs[i].type = "RegWrite" /\ bs[i].reg = r}

\* the snapshots of history that hold a RegWrite
SnapshotsWithRegWrite ==
    {k \in DOMAIN history : \E i \in DOMAIN history[k].behaviors :
                                history[k].behaviors[i].type = "RegWrite"}

(* C11: every RegWrite(reg, val) logged in a cycle is logged by WB, for the   *)
(* packet that was in the WB slot at the start of the cycle and for a write  *)
(* pending in it, there is at most one RegWrite per register in a cycle, the *)
(* register file holds val in reg at the end of the cycle, and in every      *)
(* snapshot gpr[reg] equals val for every RegWrite in its behaviors.         *)
Thm_C11 ==
    [][cycle' # cycle =>
        /\ \A i \in DOMAIN behaviors' : behaviors'[i].type = "RegWrite" =>
              /\ slots[WB] # None
              /\ behaviors'[i].reg \in DOMAIN Pkt(slots[WB]).alu
              /\ behaviors'[i] =
                    RegWriteBehavior(cycle', Pkt(slots[WB]).pc, behaviors'[i].reg,
                                     Pkt(slots[WB]).alu[behaviors'[i].reg].new)
              /\ regs'[behaviors'[i].reg] = behaviors'[i].val
              /\ Cardinality(RegWritesOf(behaviors', behaviors'[i].reg)) = 1
        /\ \A k \in DOMAIN history' : \A i \in DOMAIN history'[k].behaviors :
              history'[k].behaviors[i].type = "RegWrite" =>
                /\ history'[k].behaviors[i].cycle = history'[k].cycle
                /\ history'[k].gpr[history'[k].behaviors[i].reg] =
                      history'[k].behaviors[i].val
                /\ Cardinality(RegWritesOf(history'[k].behaviors,
                                           history'[k].behaviors[i].reg)) = 1
      ]_vars

\* a snapshot has been appended for a cycle in which WB has committed a word
\* that is not zero
Wit_C11 ==
    \E k \in SnapshotsWithRegWrite : \E i \in DOMAIN history[k].behaviors :
        /\ history[k].behaviors[i].type = "RegWrite"
        /\ history[k].behaviors[i].val # ZeroW
        /\ history[k].gpr[history[k].behaviors[i].reg] = history[k].behaviors[i].val

----------------------------------------------------------------------------
(* Forwards *)

StageOf(name) == CHOOSE s \in IF_..WB : StageName(s) = name

\* the packet that slot s refers to at the moment stage `to` runs inside a step
\* that starts in the present state: the stages behind `to` have run, so the
\* slot right behind `to` still holds its packet and every later slot has got
\* the packet of the slot before it
SlotAtRead(to, s) == IF s = to + 1 THEN slots[s] ELSE slots[s - 1]

\* the Forward behaviors of the step to the reader in stage `to`
ForwardsTo(to) ==
    {behaviors'[i] : i \in {j \in DOMAIN behaviors' :
                                /\ behaviors'[j].type = "Forward"
                                /\ behaviors'[j].to_stage = StageName(to)}}

\* the operand values the reader in stage `to` gets in the step: the forwarded
\* value where a Forward is logged, the word of the register file otherwise
OperandsSeen(to) ==
    [x \in 0..31 |->
        IF \E b \in ForwardsTo(to) : b.reg = x
        THEN (CHOOSE b \in ForwardsTo(to) : b.reg = x).val
        ELSE RegVal(regs', x)]

\* the effect of the ID phase of p on operand values taken from rf
IdResult(p, rf) ==
    CASE p.kind = "beq" ->
           p.npc = IF rf[rs(p.raw)] = rf[rt(p.raw)]
                   THEN BeqTarget(p) ELSE NumAdd(p.pc, 4)
      [] p.kind = "jr" -> p.npc = PyWord(rf[rs(p.raw)])
      [] OTHER -> TRUE

\* the reader c has done the phase of stage `to` in the step and has used the
\* operand values it was given
ConsumerUsed(c, to) ==
    (Pkt(c).stage = to - 1 /\ pkts'[c].stage = to /\ slots'[to + 1] = c) =>
        CASE to = EX -> ExResult(pkts'[c], OperandsSeen(EX))
          [] to = ID -> IdResult(pkts'[c], OperandsSeen(ID))
          [] OTHER -> TRUE

\* the Forward b names a reader and a producer that are there when it is read
ForwardSound(b, to, from) ==
    /\ b.reg # 0 /\ b.cycle = cycle'
    /\ to \in {ID, EX, MEM} /\ from > to /\ from <= WB
    /\ slots[to] # None /\ b.pc = Pkt(slots[to]).pc
    /\ SlotAtRead(to, from) # None
    /\ get_wreg(pkts'[SlotAtRead(to, from)].kind, pkts'[SlotAtRead(to, from)].raw) = b.reg
    /\ b.reg \in DOMAIN pkts'[SlotAtRead(to, from)].alu
    /\ pkts'[SlotAtRead(to, from)].alu[b.reg].new = b.val
    /\ ConsumerUsed(slots[to], to)

(* C12: for every Forward(reg, val, from, to) logged in a cycle, reg is not 0, *)
(* `from` is strictly downstream of `to`, the slot `from` holds, when the      *)
(* reader in slot `to` reads, a packet whose destination is reg and whose      *)
(* pending alu[reg].new is val, and the reader computes with val: the result   *)
(* of its EX phase, or the branch decision of its ID phase, is the one val     *)
(* gives.                                                                      *)
Thm_C12 ==
    [][cycle' # cycle =>
        \A i \in DOMAIN behaviors' : behaviors'[i].type = "Forward" =>
            ForwardSound(behaviors'[i], StageOf(behaviors'[i].to_stage),
                         StageOf(behaviors'[i].from_stage))]_vars

\* a value that differs from the register file's has been forwarded to a
\* reader that has used it
Wit_C12 ==
    \E i \in DOMAIN behaviors :
        /\ behaviors[i].type = "Forward"
        /\ behaviors[i].val # ZeroW
        /\ behaviors[i].val # regs[behaviors[i].reg]
        /\ behaviors[i].to_stage = "EX"
        /\ slots[MEM] # None /\ Pkt(slots[MEM]).stage = EX
        /\ Pkt(slots[MEM]).pc = behaviors[i].pc

----------------------------------------------------------------------------
(* Snapshots and pc *)

(* C13: every step() appends exactly one snapshot to history, and snapshot i *)
(* has cycle = i.                                                            *)
CE_C13 ==
    [][cycle' # cycle =>
          /\ Len(history') = Len(history) + 1
          /\ \A i \in DOMAIN history' : history'[i].cycle = i]_vars

\* pc as a number of at most 16 bits, or -1 when it is larger
PcLow == IF pc.w THEN (IF pc.hl[1] = 0 THEN pc.hl[2] ELSE -1) ELSE pc.i

(* C14: pc is always a multiple of 4 and lies between 0x3000 and one word   *)
(* past 0x3000 + 4 * len(imem).                                             *)
CE_C14 ==
    /\ PcLow % 4 = 0
    /\ PcLow >= 12288
    /\ PcLow <= 12288 + 4 * Len(imem) + 4

----------------------------------------------------------------------------
(* The run loop *)

(* C15: when run(max_cycles) has stopped, halt is set or cycle equals *)
(* max_cycles, and cycle never exceeds max_cycles.                    *)
CE_C15 ==
    /\ rcpu.at \in {"returned", "raised"} =>
          (rcpu.halt \/ rcpu.cycle = rcpu.max_cycles)
    /\ rcpu.at # "new" => rcpu.cycle <= rcpu.max_cycles

----------------------------------------------------------------------------
(* Decoding *)

\* the key an instruction class is registered under; -1 stands for None
KeyOf(op, fn) == IF op = 0 THEN <<0, fn>> ELSE <<op, -1>>

\* the @instr decorators of mips/set.py
KindTable ==
    (<<0, 32>> :> "add") @@ (<<0, 34>> :> "sub") @@ (<<15, -1>> :> "lui")
    @@ (<<13, -1>> :> "ori") @@ (<<35, -1>> :> "lw") @@ (<<43, -1>> :> "sw")
    @@ (<<4, -1>> :> "beq") @@ (<<0, 8>> :> "jr") @@ (<<3, -1>> :> "jal")
    @@ (<<0, 0>> :> "nop")

\* bits 31..26 and bits 5..0 of the machine word <<hi, lo>>
Bits31_26(raw) == raw[1] \div 1024
Bits5_0(raw) == raw[2] % 64

ExpectedKind(raw) ==
    IF KeyOf(Bits31_26(raw), Bits5_0(raw)) \in DOMAIN KindTable
    THEN KindTable[KeyOf(Bits31_26(raw), Bits5_0(raw))]
    ELSE KindTable[<<0, 0>>]

(* C16: decode is total and depends only on the opcode and, for opcode 0,  *)
(* on the funct: the packet fetched for a machine word carries the kind    *)
(* registered under (opcode, funct) for opcode 0 and under (opcode, None)  *)
(* otherwise, and the nop kind of (0, 0) when nothing is registered under  *)
(* the key; no fetch raises.                                               *)
Inv_C16 ==
    /\ \A id \in DOMAIN pkts :
          /\ Pkt(id).kind = ExpectedKind(Pkt(id).raw)
          /\ Pkt(id).kind \in {KindTable[k] : k \in DOMAIN KindTable}
    /\ (cycle = 1 /\ exc \in {"none", "TypeError"}) =>
          /\ slots[ID] # None
          /\ Pkt(slots[ID]).raw = imem[1]
          /\ \A w \in DecodeWords :
                (Bits31_26(w) = Bits31_26(imem[1])
                   /\ (Bits31_26(w) = 0 => Bits5_0(w) = Bits5_0(imem[1])))
                  => decode(w) = Pkt(slots[ID]).kind

\* a word with an opcode nothing is registered under, and not the all-zero
\* word, has been fetched and decoded as a nop
Wit_C16 ==
    /\ slots[ID] # None
    /\ KeyOf(Bits31_26(Pkt(slots[ID]).raw), Bits5_0(Pkt(slots[ID]).raw))
          \notin DOMAIN KindTable
    /\ Pkt(slots[ID]).raw # NOP
    /\ Pkt(slots[ID]).kind = "nop"

----------------------------------------------------------------------------
(* Branch behaviors *)

\* the packet that was in ID has left it for EX in the step, not stalled, with
\* npc other than pc + 4
TakenLeftID ==
    /\ slots[ID] # None /\ slots'[EX] = slots[ID]
    /\ pkts'[slots[ID]].stage = ID
    /\ Behaviors("Stall")' = {}
    /\ IsTaken(pkts'[slots[ID]])

(* C17: in a cycle in which a packet leaves ID for EX with npc != pc + 4 a   *)
(* Branch(taken = true, target_pc = npc) is logged, wherever the fetch of    *)
(* the cycle goes, and in every other cycle no Branch is logged.             *)
CE_C17 ==
    [][cycle' # cycle =>
          /\ TakenLeftID =>
                BranchBehavior(cycle', Pkt(slots[ID]).pc, pkts'[slots[ID]].npc, TRUE)
                    \in Behaviors("Branch")'
          /\ ~TakenLeftID => Behaviors("Branch")' = {}]_vars

----------------------------------------------------------------------------
(* Order of the behaviors of a cycle *)

\* the place of the logging stage in the order WB, MEM, ID, IF
Rank(type) ==
    CASE type = "RegWrite" -> 1
      [] type = "MemWrite" -> 2
      [] type = "Stall" -> 3
      [] type = "Branch" -> 4

Ranked(bs) == {i \in DOMAIN bs : bs[i].type # "Forward"}

CountOf(bs, type) == Cardinality({i \in DOMAIN bs : bs[i].type = type})

InStageOrder(bs) ==
    /\ \A i \in Ranked(bs) : \A j \in Ranked(bs) :
          i < j => Rank(bs[i].type) <= Rank(bs[j].type)
    /\ CountOf(bs, "Stall") <= 1
    /\ CountOf(bs, "Branch") <= 1
    /\ CountOf(bs, "Stall") + CountOf(bs, "Branch") <= 1

(* C18: in the behavior list of every cycle, and of every snapshot, the    *)
(* RegWrite entries come before the MemWrite entries, these before the     *)
(* Stall entry and this before the Branch entry; there is at most one      *)
(* Stall and at most one Branch, and never both.                           *)
Inv_C18 ==
    /\ InStageOrder(behaviors)
    /\ \A b \in Behaviors("RegWrite") \cup Behaviors("Stall") \cup Behaviors("Branch") :
          b.cycle = cycle
    /\ \A k \in DOMAIN history : InStageOrder(history[k].behaviors)

\* a cycle in which WB has logged a RegWrite and ID a Stall after it
Wit_C18 ==
    \E i \in DOMAIN behaviors : \E j \in DOMAIN behaviors :
        /\ i < j
        /\ behaviors[i].type = "RegWrite"
        /\ behaviors[j].type = "Stall"

----------------------------------------------------------------------------
(* Fetch out of range *)

\* the IF stage has run in the step and its fetch index is outside imem
FetchedOutOfRange == pc' # pc /\ ~FetchInRange(Machine, pc)

\* no beq, jr or jal in the program: once out of range the fetch stays so
StraightLine == \A i \in DOMAIN imem : decode(imem[i]) \notin Control

\* five fetches in a row have been out of range
FiveOutOfRange == StraightLine /\ PcLow >= 12288 + 4 * Len(imem) + 20

(* C19: a step whose fetch index is outside imem completes normally and    *)
(* leaves the ID slot empty; when the fetch stays out of range, after four *)
(* further steps all five slots are empty, and from then on the register   *)
(* file and data memory do not change.                                     *)
CE_C19 ==
    [][/\ FetchedOutOfRange => (exc' = "none" /\ slots'[ID] = None)
       /\ FiveOutOfRange' => Drained'
       /\ (FiveOutOfRange /\ Drained) => (regs' = regs /\ dmem' = dmem)]_vars

----------------------------------------------------------------------------
(* Snapshots are copies *)

----------------------------------------------------------------------------
(* Fetch *)

\* the packet that was in ID has left it for EX in the step, not stalled
LeftID ==
    /\ slots[ID] # None /\ slots'[EX] = slots[ID]
    /\ pkts'[slots[ID]].stage = ID
    /\ Behaviors("Stall")' = {}

\* the step has fetched the word at the address a into a new packet in ID
FetchedAt(a) ==
    /\ created' = created + 1 /\ slots'[ID] = created'
    /\ pkts'[created'] = NewPacket(a, imem[FetchIndex(a) + 1])

----------------------------------------------------------------------------
(* The hazard rule *)

MaxOf(S) == CHOOSE x \in S : \A y \in S : y <= x

\* the source registers the check of p looks at, with their time of use
SourcesOf(p) ==
    {x \in {[reg |-> rs(p.raw), t_use |-> tuse_rs(p.kind)],
            [reg |-> rt(p.raw), t_use |-> tuse_rt(p.kind)]} :
        x.t_use # BEGIN /\ x.reg # 0}

\* the slots in which the check made by ID in the step finds a packet whose
\* destination is r: slot EX holds the packet it held at the start of the
\* cycle and slot WB the one that was in MEM; slot MEM refers to the packet of
\* slot EX once more
ProducerSlots(r) ==
    {s \in EX..WB : /\ SlotAtRead(ID, s) # None
                    /\ get_wreg(Pkt(SlotAtRead(ID, s)).kind, Pkt(SlotAtRead(ID, s)).raw) = r}

\* the same, each packet counted once, in the slot it is first found in
DistinctProducerSlots(r) == ProducerSlots(r) \ {MEM}

\* Tuse < remaining(s) for the producer found in slot s
TooLate(x, s) == Tuse(x.t_use) < remaining(Pkt(SlotAtRead(ID, s)).kind, s)

\* ID has processed the packet it held: it has stalled it or sent it to EX
IdDecided ==
    /\ cycle' # cycle /\ slots[ID] # None
    /\ pkts'[slots[ID]].stage = ID
    /\ StalledBy \/ AdvancedBy

\* the hazards the rule finds for the packet in ID, as the reasons of the
\* stall: the producer of slot `pick` of the slots that hold one decides
HazardsBy(pick(_)) ==
    {HazardReason(x.reg, Tuse(x.t_use),
                  remaining(Pkt(SlotAtRead(ID, pick(x.reg))).kind, pick(x.reg))) :
        x \in {y \in SourcesOf(Pkt(slots[ID])) :
                  /\ ProducerSlots(y.reg) # {}
                  /\ TooLate(y, pick(y.reg))}}

Nearest(r) == MinOf(ProducerSlots(r))
MostDownstream(r) == MaxOf(DistinctProducerSlots(r))

\* the packet in ID is stalled by the step on one of its source registers
StalledOnSource ==
    /\ StalledBy
    /\ \E b \in Behaviors("Stall")' :
          b.reason.reg \in {x.reg : x \in SourcesOf(Pkt(slots[ID]))}

(* C22, as stated: the packet in ID is stalled on a source register iff for *)
(* one of its source registers the most-downstream of the packets in EX,    *)
(* MEM and WB with that destination has Tuse < remaining.                   *)
CE_C22 ==
    [][IdDecided => (StalledOnSource <=> HazardsBy(MostDownstream) # {})]_vars

(* C22, amended: the packet in ID is stalled on a source register iff for   *)
(* one of its source registers r (rs or rt with tuse other than BEGIN, r    *)
(* not $0) the nearest of the packets in EX, MEM and WB with destination r, *)
(* the first one in the order EX, MEM, WB, has Tuse < remaining(s) for the  *)
(* slot s it is in, with Tuse = max(0, tuse - ID); a producer further down  *)
(* the pipeline with the same destination does not count; the Stall logged  *)
(* names such a register with its Tuse and the remaining of that producer.  *)
Thm_C22 ==
    [][IdDecided =>
          /\ StalledOnSource <=> HazardsBy(Nearest) # {}
          /\ HazardsBy(Nearest) # {} =>
                \E b \in Behaviors("Stall")' : b.reason \in HazardsBy(Nearest)]_vars

\* a packet has been stalled in ID for a register that two packets ahead of
\* it write: the nearer one, now in MEM, is a lw, the farther one is in WB
Wit_C22 ==
    /\ Behaviors("Stall") # {}
    /\ slots[ID] # None /\ slots[MEM] # None /\ slots[WB] # None
    /\ slots[MEM] # slots[WB]
    /\ Pkt(slots[MEM]).kind = "lw"
    /\ \E x \in SourcesOf(Pkt(slots[ID])) :
          /\ get_wreg(Pkt(slots[MEM]).kind, Pkt(slots[MEM]).raw) = x.reg
          /\ get_wreg(Pkt(slots[WB]).kind, Pkt(slots[WB]).raw) = x.reg

----------------------------------------------------------------------------
(* Agreement of the check at decode with the reads *)

\* the packet in ID reads no source register
NoSource(p) == tuse_rs(p.kind) = BEGIN /\ tuse_rt(p.kind) = BEGIN

(* C23: when the check at decode finds no hazard for the packet in ID, no   *)
(* read made by its ID phase stalls it, the read inside write_reg included; *)
(* a packet that reads no source register (jal, lui, nop) is never stalled. *)
CE_C23 ==
    [][(cycle' # cycle /\ slots[ID] # None) =>
          /\ HazardsBy(Nearest) = {} => Behaviors("Stall")' = {}
          /\ NoSource(Pkt(slots[ID])) => ~StalledBy]_vars

----------------------------------------------------------------------------
(* Pending results of the producers *)

\* the machine inside the next step at the moment the stage `to` starts: the
\* stages after `to` have run
AtStage(to) ==
    CASE to = MEM -> _stage_wb(BeginStep(Machine))
      [] to = EX  -> _stage_mem(_stage_wb(BeginStep(Machine)))
      [] to = ID  -> _stage_ex(_stage_mem(_stage_wb(BeginStep(Machine))))

\* the destination of the packet p; -1 when it has none
DestOf(p) == get_wreg(p.kind, p.raw)

\* the packets a check or a read made by the stage `to` of machine m can find
\* ready in the slots after `to`: destination in dests, remaining 0
ReadyProducers(m, to, dests) ==
    {s \in (to + 1)..WB : /\ m.slots[s] # None
                          /\ DestOf(m.pkts[m.slots[s]]) \in dests
                          /\ remaining(m.pkts[m.slots[s]].kind, s) = 0}

(* C24, as stated: wherever a stall check or an operand read can find it,   *)
(* a packet in EX, MEM or WB that has a destination register and remaining  *)
(* 0 holds exactly one pending write, to its destination register.          *)
CE_C24 ==
    \A to \in {ID, EX, MEM} :
        AtStage(to).exc = "none" =>
            \A s \in ReadyProducers(AtStage(to), to, 0..31) :
                DOMAIN AtStage(to).pkts[AtStage(to).slots[s]].alu =
                    {DestOf(AtStage(to).pkts[AtStage(to).slots[s]])}

(* C24, amended: wherever a stall check or an operand read can find it, a   *)
(* packet in EX, MEM or WB whose destination register is not $0 and whose   *)
(* remaining is 0 holds exactly one pending write, to its destination       *)
(* register; a packet whose destination is $0 holds no pending write.       *)
Thm_C24 ==
    \A to \in {ID, EX, MEM} :
        AtStage(to).exc = "none" =>
            /\ \A s \in ReadyProducers(AtStage(to), to, 1..31) :
                  DOMAIN AtStage(to).pkts[AtStage(to).slots[s]].alu =
                      {DestOf(AtStage(to).pkts[AtStage(to).slots[s]])}
            /\ \A s \in ReadyProducers(AtStage(to), to, {0}) :
                  DOMAIN AtStage(to).pkts[AtStage(to).slots[s]].alu = {}

\* the packet in ID is about to be checked for a source register that the
\* packet in EX, an ori that has just done its EX phase, holds ready
Wit_C24 ==
    /\ slots[ID] # None /\ slots[EX] # None
    /\ AtStage(ID).exc = "none"
    /\ Pkt(slots[EX]).kind = "ori"
    /\ EX \in ReadyProducers(AtStage(ID), ID,
                             {x.reg : x \in SourcesOf(Pkt(slots[ID]))})
    /\ Pkt(slots[EX]).alu = NoMap
    /\ DOMAIN AtStage(ID).pkts[slots[EX]].alu = {rt(Pkt(slots[EX]).raw)}

----------------------------------------------------------------------------
(* Commits *)

\* the addresses at which data memory differs after the step
WordsChanged == {a \in DOMAIN dmem' : a \notin DOMAIN dmem \/ dmem'[a] # dmem[a]}

(* C25: in a cycle a register changes only when the packet that was in the *)
(* WB slot at the start of the cycle holds a pending write to it, and then *)
(* it becomes the new value of that write; the register file is as the WB  *)
(* stage has left it, whatever the execute calls of MEM, EX and ID do; a   *)
(* word of data memory changes only when the packet that was in the MEM    *)
(* slot holds a pending write to its address; between two snapshots of     *)
(* consecutive cycles, the earlier of which shows an empty WB slot, gpr    *)
(* does not change.                                                        *)
Thm_C25 ==
    [][cycle' # cycle =>
        /\ \A r \in 0..31 : regs'[r] # regs[r] =>
              /\ slots[WB] # None
              /\ r \in DOMAIN Pkt(slots[WB]).alu
              /\ regs'[r] = Pkt(slots[WB]).alu[r].new
        /\ regs' = AtStage(MEM).regs
        /\ dmem' \in {dmem, AtStage(EX).dmem}
        /\ \A a \in WordsChanged :
              /\ slots[MEM] # None
              /\ a \in DOMAIN pkts'[slots[MEM]].mem
              /\ dmem'[a] = pkts'[slots[MEM]].mem[a].new
        /\ \A i \in DOMAIN history' :
              (i > 1 /\ history'[i].cycle = history'[i - 1].cycle + 1
                 /\ history'[i - 1].pipeline[WB] = None)
                => history'[i].gpr = history'[i - 1].gpr
      ]_vars

\* WB has committed a word that is not zero in the step just taken, while the
\* packet that has done its EX phase in the same step holds a pending write
\* that the register file does not show
Wit_C25 ==
    /\ Committed # None /\ slots[MEM] # None
    /\ \E r \in DOMAIN Pkt(Committed).alu :
          regs[r] = Pkt(Committed).alu[r].new /\ regs[r] # ZeroW
    /\ Pkt(slots[MEM]).stage = EX
    /\ \E r \in DOMAIN Pkt(slots[MEM]).alu :
          regs[r] # Pkt(slots[MEM]).alu[r].new

----------------------------------------------------------------------------
(* What a stage sees of the slots after it *)

\* the Forward b of the step delivers a pending result that its producer held
\* already when the step started
RecordedBefore(b) ==
    /\ SlotAtRead(StageOf(b.to_stage), StageOf(b.from_stage)) # None
    /\ b.reg \in DOMAIN Pkt(SlotAtRead(StageOf(b.to_stage), StageOf(b.from_stage))).alu
    /\ Pkt(SlotAtRead(StageOf(b.to_stage), StageOf(b.from_stage))).alu[b.reg].new = b.val

(* C26: every value forwarded to a consumer in cycle k is a pending result *)
(* that the downstream packet had recorded by the end of cycle k - 1,      *)
(* never one that it computes during cycle k.                              *)
CE_C26 ==
    [][cycle' # cycle =>
          \A i \in DOMAIN behaviors' :
              behaviors'[i].type = "Forward" => RecordedBefore(behaviors'[i])]_vars

----------------------------------------------------------------------------
(* Packet lifecycle *)

\* the packets that exist before and after the step
Surviving == DOMAIN pkts \cap DOMAIN pkts'

(* C27: a packet is created with stage IF, npc = pc + 4 and empty alu and   *)
(* mem maps; in a step its stage stays or advances by one stage along IF,   *)
(* ID, EX, MEM, WB, never two and never backwards; a packet that is stalled *)
(* is at ID after the step; no packet in a slot has stage END.              *)
CE_C27 ==
    [][cycle' # cycle =>
        /\ created' # created =>
              /\ pkts'[created'].stage = IF_
              /\ pkts'[created'].npc = NumAdd(pkts'[created'].pc, 4)
              /\ pkts'[created'].alu = NoMap /\ pkts'[created'].mem = NoMap
        /\ \A id \in Surviving :
              pkts'[id].stage \in {Pkt(id).stage, Pkt(id).stage + 1}
        /\ StalledBy => pkts'[slots[ID]].stage = ID
        /\ \A s \in IF_..WB : slots'[s] # None => pkts'[slots'[s]].stage \in IF_..WB
      ]_vars

----------------------------------------------------------------------------
(* 32-bit values *)

\* the halves of an integer in [0, 2^32)
IsWord(w) == w \in (0..65535) \X (0..65535)

\* (a + b) mod 2^32 and (a - b) mod 2^32 on the halves, with carry and borrow
Sum32(a, b) ==
    LET c == IF a[2] + b[2] >= TwoTo16 THEN 1 ELSE 0
        h == a[1] + b[1] + c
    IN  <<IF h >= TwoTo16 THEN h - TwoTo16 ELSE h, a[2] + b[2] - c * TwoTo16>>

Diff32(a, b) ==
    LET c == IF a[2] < b[2] THEN 1 ELSE 0
        h == a[1] - b[1] - c
    IN  <<IF h < 0 THEN h + TwoTo16 ELSE h, a[2] - b[2] + c * TwoTo16>>

\* sext(imm16) as a 32-bit word
Sext(imm) == IF imm >= 32768 THEN <<65535, imm>> ELSE <<0, imm>>

\* the pending result of the EX phase of p is the 32-bit result of its
\* operation on the operand values rf
Wrapped(p, rf) ==
    CASE p.kind = "add" ->
           rd(p.raw) # 0 => p.alu[rd(p.raw)].new = Sum32(rf[rs(p.raw)], rf[rt(p.raw)])
      [] p.kind = "sub" ->
           rd(p.raw) # 0 => p.alu[rd(p.raw)].new = Diff32(rf[rs(p.raw)], rf[rt(p.raw)])
      [] p.kind = "lui" ->
           rt(p.raw) # 0 => p.alu[rt(p.raw)].new = <<imm16(p.raw), 0>>
      [] p.kind \in {"lw", "sw"} ->
           p.optional["mem_addr"] = Sum32(rf[rs(p.raw)], Sext(imm16(p.raw)))
      [] OTHER -> TRUE

\* every pending value and address of the packet p is a 32-bit word
PendingWords(p) ==
    /\ \A r \in DOMAIN p.alu : IsWord(p.alu[r].new) /\ IsWord(p.alu[r].origin)
    /\ \A k \in DOMAIN p.optional : IsWord(p.optional[k])

(* C28: every register, every word and address of data memory and every    *)
(* pending result is an integer in [0, 2^32); the EX phase of add and sub   *)
(* records (rs + rt) mod 2^32 and (rs - rt) mod 2^32, that of lui           *)
(* (imm16 << 16) mod 2^32, that of lw and sw the address                    *)
(* (rs + sext(imm16)) mod 2^32, and WB commits the recorded word unchanged. *)
Thm_C28 ==
    [][cycle' # cycle =>
        /\ \A r \in 0..31 : IsWord(regs'[r])
        /\ \A a \in DOMAIN dmem' : IsWord(a) /\ IsWord(dmem'[a])
        /\ \A id \in DOMAIN pkts' : PendingWords(pkts'[id])
        /\ (slots[EX] # None /\ slots'[MEM] = slots[EX]
              /\ Pkt(slots[EX]).stage = ID /\ pkts'[slots[EX]].stage = EX) =>
              Wrapped(pkts'[slots[EX]], OperandsSeen(EX))
        /\ (slots[WB] # None /\ Pkt(slots[WB]).stage = MEM) =>
              \A r \in DOMAIN Pkt(slots[WB]).alu :
                  regs'[r] = Pkt(slots[WB]).alu[r].new
      ]_vars

\* WB has committed the sum of add $2,$2,$2 for $2 = 0xFFFF0000, which
\* wraps to 0xFFFE0000
Wit_C28 ==
    /\ Committed # None
    /\ Pkt(Committed).raw = ADD(2, 2, 2)
    /\ Pkt(Committed).alu[2].origin = <<65535, 0>>
    /\ regs[2] = <<65534, 0>>

\* ---------------------------------------------------------------------------
\* Occupancy of the slots
\* ---------------------------------------------------------------------------

\* C29: at the end of every step no packet occupies more than one of the slots
\* ID, EX, MEM, WB, slots[IF] is empty, and every pipeline snapshot reports IF
\* as null
CE_C29 ==
    /\ \A s \in ID..WB : \A t \in ID..WB :
           (s # t /\ slots[s] # None) => slots[s] # slots[t]
    /\ slots[IF_] = None
    /\ \A k \in DOMAIN history : history[k].pipeline[IF_] = None

\* ---------------------------------------------------------------------------
\* Length of a stall
\* ---------------------------------------------------------------------------

\* the step just taken has stalled the packet that is in ID
StalledLast ==
    /\ slots[ID] # None
    /\ \E b \in Behaviors("Stall") : b.pc = Pkt(slots[ID]).pc /\ b.stage = "ID"

\* the packet in ID has been through decode in an earlier step and is still there
HeldInID == slots[ID] # None /\ Pkt(slots[ID]).stage = ID

(* C30: a packet that was stalled in one cycle is not stalled in the next,  *)
(* where it moves to EX; a packet that decode has held once leaves ID in    *)
(* the following cycle, so it is in ID for two cycles at most.              *)
CE_C30 ==
    [][cycle' # cycle =>
        /\ StalledLast => (~StalledBy /\ Behaviors("Stall")' = {} /\ AdvancedBy)
        /\ HeldInID => AdvancedBy
      ]_vars

\* ---------------------------------------------------------------------------
\* Commit order
\* ---------------------------------------------------------------------------

\* packets are numbered in the order of their fetch: the slots hold them in
\* that order, the oldest nearest to WB
InFetchOrder(sl) ==
    \A s \in ID..WB : \A t \in ID..WB :
        (s < t /\ sl[s] # None /\ sl[t] # None) => sl[s] > sl[t]

\* the WB stage takes the packet of the WB slot, which has done the stages
\* before WB and no more, and the packet is in no slot after the step
CommitsOnce ==
    slots[WB] # None =>
        /\ Pkt(slots[WB]).stage = MEM
        /\ \A s \in ID..WB : slots'[s] # slots[WB]

\* a packet of the slots ID, EX, MEM is in a slot after the step
NoneDropped ==
    \A s \in ID..MEM : slots[s] # None => \E t \in ID..WB : slots'[t] = slots[s]

(* C31: every fetched packet is processed by WB exactly once, in the order  *)
(* of the fetches, and none is dropped or duplicated on the way: in every   *)
(* step the packet of the WB slot is processed for the first time and       *)
(* leaves the slots, every other packet stays in the slots, and the slots   *)
(* hold the packets in fetch order.                                         *)
CE_C31 ==
    [][cycle' # cycle => (CommitsOnce /\ NoneDropped /\ InFetchOrder(slots'))]_vars

====
